---- MODULE Spec2Model ----
(***************************************************************************)
(* The script-to-audio pipeline of the book podcast application.           *)
(*                                                                         *)
(*   src/src/podcast_creator.py   AudioProcessor, PodcastCreator           *)
(*   src/src/voice_generator.py   VoiceGenerator                           *)
(*                                                                         *)
(* A string is a sequence of one-character strings, a script is the        *)
(* sequence of its lines (script.split('\n')).                             *)
(***************************************************************************)
EXTENDS Integers, Sequences, FiniteSets, TLC

VARIABLES
    impl,           \* what runs: "parse", "creator", "voicegen", "concat", "chat"
    text_answer,    \* the text_answer argument of process_answer
    widgets,        \* which st.* widget call of process_answer raises, if any
    script,         \* the script handed to the pipeline, as its lines
    pc,             \* position of the caller / orchestrator
    segments,       \* the parsed (speaker, text) pairs
    futures,        \* PodcastCreator.create_podcast: one record per submitted task
    workers,        \* the two threads of the ThreadPoolExecutor
    lock,           \* AudioProcessor._lock: 0 when free, else the holding worker
    engine,         \* the shared pyttsx3 engine: its voice and its queued utterance
    disk,           \* the temporary WAV files that exist, by name
    audio_cache,    \* AudioProcessor._audio_cache
    collected,      \* the futures whose result() has returned (the segments done)
    temp_files,     \* create_podcast's (or audio_segments of VoiceGenerator) list
    calls,          \* the backend calls made so far, in order
    st_errors,      \* number of st.error messages shown
    initialized,    \* VoiceGenerator.initialized
    response,       \* what the entry point returned
    chat_history,   \* st.session_state.chat_history
    recent          \* the last call of get_recent_chat_history and its result

vars == << impl, text_answer, widgets, script, pc, segments, futures, workers, lock, engine, disk,
           audio_cache, collected, temp_files, calls, st_errors, initialized,
           response, chat_history, recent >>

(***************************************************************************)
(* Bounds.                                                                 *)
(***************************************************************************)
MaxLines == 3
MaxParseLines == 4
MaxAnswerLines == 2
MaxClips == 3
MaxTime == 3
MaxLimit == 4

\* ThreadPoolExecutor(max_workers=2)
max_workers == 2

(***************************************************************************)
(* Strings.                                                                *)
(***************************************************************************)
Null == [none |-> TRUE]

IsSpace(c) == c = " "

RECURSIVE lstrip(_)
lstrip(s) ==
    IF s # << >> /\ IsSpace(Head(s)) THEN lstrip(Tail(s)) ELSE s

RECURSIVE rstrip(_)
rstrip(s) ==
    IF s # << >> /\ IsSpace(s[Len(s)]) THEN rstrip(SubSeq(s, 1, Len(s) - 1)) ELSE s

\* str.strip()
strip(s) == rstrip(lstrip(s))

\* ':' in line
HasColon(line) == \E i \in 1..Len(line) : line[i] = ":"

FirstColon(line) == CHOOSE i \in 1..Len(line) :
    line[i] = ":" /\ \A j \in 1..(i - 1) : line[j] # ":"

\* line.split(':', 1) of a line that holds a ':'
split_colon(line) ==
    << SubSeq(line, 1, FirstColon(line) - 1),
       SubSeq(line, FirstColon(line) + 1, Len(line)) >>

\* ' '.join(parts)
RECURSIVE join(_)
join(parts) ==
    IF parts = << >> THEN << >>
    ELSE IF Len(parts) = 1 THEN parts[1]
    ELSE parts[1] \o << " " >> \o join(Tail(parts))

(***************************************************************************)
(* PodcastCreator.clean_script                                             *)
(***************************************************************************)
\* lines = [line.strip() for line in script.split('\n') if line.strip()]
RECURSIVE stripped_lines(_)
stripped_lines(s) ==
    IF s = << >> THEN << >>
    ELSE IF strip(Head(s)) # << >>
         THEN << strip(Head(s)) >> \o stripped_lines(Tail(s))
         ELSE stripped_lines(Tail(s))

\* current_speaker is None or a string; only its truth value is tested
NoSpeaker == [set |-> FALSE, val |-> << >>]
Truthy(sp) == sp.set /\ sp.val # << >>

ParseInit == [segments |-> << >>, current_speaker |-> NoSpeaker, current_text |-> << >>]

\* save_segment testing "current_speaker is not None" instead of its truth
save_segment_is_not_none(st) ==
    IF st.current_speaker.set /\ st.current_text # << >>
    THEN Append(st.segments,
                [speaker |-> st.current_speaker.val, text |-> join(st.current_text)])
    ELSE st.segments

\* "if current_speaker and current_text: segments.append(...)"
save_segment(st) ==
    IF Truthy(st.current_speaker) /\ st.current_text # << >>
    THEN Append(st.segments,
                [speaker |-> st.current_speaker.val, text |-> join(st.current_text)])
    ELSE st.segments

\* parse_line keeping the text after the ':' untrimmed
parse_line_untrimmed(st, line) ==
    IF HasColon(line)
    THEN [segments |-> IF Truthy(st.current_speaker) /\ st.current_text # << >>
                       THEN Append(st.segments,
                                   [speaker |-> st.current_speaker.val,
                                    text |-> join(st.current_text)])
                       ELSE st.segments,
          current_speaker |-> [set |-> TRUE, val |-> strip(split_colon(line)[1])],
          current_text |-> << split_colon(line)[2] >>]
    ELSE IF Truthy(st.current_speaker)
         THEN [st EXCEPT !.current_text = Append(@, line)]
         ELSE st

\* one iteration of "for line in lines"
parse_line(st, line) ==
    IF HasColon(line)
    THEN [segments |-> save_segment(st),
          current_speaker |-> [set |-> TRUE, val |-> strip(split_colon(line)[1])],
          current_text |-> << strip(split_colon(line)[2]) >>]
    ELSE IF Truthy(st.current_speaker)
         THEN [st EXCEPT !.current_text = Append(@, line)]
         ELSE st

RECURSIVE parse_loop(_, _)
parse_loop(st, lines) ==
    IF lines = << >> THEN st
    ELSE parse_loop(parse_line(st, Head(lines)), Tail(lines))

\* the list comprehension is computed once, then the loop runs on its value
clean_script(s) ==
    CHOOSE segs \in { save_segment(parse_loop(ParseInit, lines)) :
                         lines \in { stripped_lines(s) } } : TRUE

(***************************************************************************)
(* The scripts the parser is run on: every sequence of 1..MaxParseLines    *)
(* of these lines (a speaker line, one with blanks around label and text,  *)
(* lines with an empty label, continuation lines, blank lines, a label     *)
(* with no text, a line with two colons).                                  *)
(***************************************************************************)
ParseLines ==
    { << "S", ":", "x" >>,
      << " ", "M", " ", ":", " ", "y", " " >>,
      << ":", "x" >>,
      << " ", ":" >>,
      << "x" >>,
      << " ", "y", " " >>,
      << >>,
      << " " >>,
      << "S", ":" >>,
      << "x", ":", "y", ":", "x" >> }

SeqsUpTo(S, n) == UNION { [1..k -> S] : k \in 1..n }

ParseScripts == SeqsUpTo(ParseLines, MaxParseLines)

\* the state of the parts of the program that a specification leaves alone
Untouched ==
    /\ chat_history = << >>
    /\ recent = Null
    /\ text_answer = "answer"
    /\ widgets = "ok"
    /\ futures = << >>
    /\ workers = << >>
    /\ lock = 0
    /\ engine = Null
    /\ disk = { }
    /\ audio_cache = { }
    /\ collected = { }
    /\ temp_files = << >>
    /\ calls = { }
    /\ st_errors = 0
    /\ initialized = TRUE
    /\ response = Null

InitParse ==
    /\ impl = "parse"
    /\ script \in ParseScripts
    /\ pc = "idle"
    /\ segments = << >>
    /\ Untouched

\* segments = self.clean_script(script)
Parse ==
    /\ impl = "parse"
    /\ pc = "idle"
    /\ segments' = clean_script(script)
    /\ pc' = "parsed"
    /\ UNCHANGED << chat_history, recent, impl, text_answer, widgets, script, futures, workers, lock, engine, disk, audio_cache,
                    collected, temp_files, calls, st_errors, initialized, response >>

NextParse == Parse

SpecParse == InitParse /\ [][NextParse]_vars

(***************************************************************************)
(* What the parser is meant to compute, stated on the lines of the script  *)
(* by position instead of by the loop.                                     *)
(***************************************************************************)
Blank(line) == strip(line) = << >>
Label(line) == strip(split_colon(strip(line))[1])
Remainder(line) == strip(split_colon(strip(line))[2])

\* the lines holding a ':'
DelimiterLines(s) == { i \in 1..Len(s) : HasColon(s[i]) }
\* those of them that carry a speaker label
LabelledLines(s) == { i \in DelimiterLines(s) : Label(s[i]) # << >> }

\* the k-th smallest element of a set of numbers
Kth(S, k) == CHOOSE i \in S : Cardinality({ j \in S : j < i }) = k - 1

\* the first delimiter line after line i, or one past the end
NextDelimiter(s, i) ==
    IF \E j \in DelimiterLines(s) : j > i
    THEN CHOOSE j \in DelimiterLines(s) :
            j > i /\ \A m \in DelimiterLines(s) : m > i => j <= m
    ELSE Len(s) + 1

\* the non-blank lines strictly between i and j, trimmed, in order
RECURSIVE Continuation(_, _, _)
Continuation(s, i, j) ==
    IF i + 1 >= j THEN << >>
    ELSE (IF Blank(s[i + 1]) THEN << >> ELSE << strip(s[i + 1]) >>)
         \o Continuation(s, i + 1, j)

ExpectedSegment(s, i) ==
    [speaker |-> Label(s[i]),
     text |-> join(<< Remainder(s[i]) >> \o Continuation(s, i, NextDelimiter(s, i)))]

(***************************************************************************)
(* The scripts the pipelines are run on: every sequence of 1..MaxLines of  *)
(* these lines. "S" and "M" stand for the two host names (Sarah, Mike),    *)
(* "Z" for any other label. The script of the single line << >> is the     *)
(* empty string.                                                           *)
(***************************************************************************)
PipeLines ==
    { << "S", ":", "x" >>,
      << "M", ":", "y" >>,
      << "Z", ":", "x" >>,
      << "S", ":" >>,
      << "x" >>,
      << >> }

PipeScripts == SeqsUpTo(PipeLines, MaxLines)

EmptyString == << << >> >>
\* podcast_script=None in a PodcastResponse
NoScript == << >>

(***************************************************************************)
(* AudioProcessor                                                          *)
(***************************************************************************)
\* a pool that starts one thread more than max_workers
Workers_one_more == 1..(max_workers + 1)

\* the threads of ThreadPoolExecutor(max_workers=2)
Workers == 1..max_workers

\* initialize_engine: the voices of the two hosts, by the number of voices
\* the TTS engine has installed (at least one, or __init__ raises)
voices(installed) ==
    [host1 |-> "voice0", host2 |-> IF installed > 1 THEN "voice1" ELSE "voice0"]

\* cache_key = f"{text}:{voice_id}"
cache_key(text, voice_id) == << text, voice_id >>

InCache(cache, key) == \E e \in cache : e.key = key
Cached(cache, key) == (CHOOSE e \in cache : e.key = key).value

\* the frames the engine renders for an utterance: one per character
Rendered(name, text, voice) == [file |-> name, voice |-> voice, text |-> text]
nframes(clip) == Len(clip.text)

\* concatenate_wav_files: the parameters of the first file and the frames of
\* every file in the order of the list; None for an empty list
RECURSIVE read_frames(_, _)
read_frames(files, wav_files) ==
    IF wav_files = << >> THEN << >>
    ELSE << (CHOOSE f \in files : f.name = Head(wav_files)).clip >>
         \o read_frames(files, Tail(wav_files))

concatenate_wav_files(files, wav_files) ==
    IF wav_files = << >> THEN Null
    ELSE [params |-> (CHOOSE f \in files : f.name = wav_files[1]).params,
          frames |-> read_frames(files, wav_files)]

\* the cleanup at the end of concatenate_wav_files
unlink_all(files, wav_files) ==
    { f \in files : \A k \in 1..Len(wav_files) : wav_files[k] # f.name }

RECURSIVE total_frames(_)
total_frames(clips) ==
    IF clips = << >> THEN 0 ELSE nframes(Head(clips)) + total_frames(Tail(clips))

(***************************************************************************)
(* concatenate_wav_files on its own: it is a static method, run here on    *)
(* every list of up to MaxClips WAV files, each with one of two sets of    *)
(* format parameters (getparams(): channels, sample width, frame rate) and *)
(* one of two lengths. The frames of a file are in the format of its       *)
(* header.                                                                 *)
(***************************************************************************)
WavParams == { "mono_22050", "stereo_44100" }
ClipTexts == { << "x" >>, << "y", "y" >> }

WavFile(name, params, text) ==
    [name |-> name, params |-> params,
     clip |-> [file |-> name, voice |-> "voice0", text |-> text, params |-> params]]

InitConcat ==
    /\ chat_history = << >>
    /\ recent = Null
    /\ impl = "concat"
    /\ text_answer = "answer"
    /\ widgets = "ok"
    /\ script = NoScript
    /\ pc = "idle"
    /\ segments = << >>
    /\ futures = << >>
    /\ workers = << >>
    /\ lock = 0
    /\ engine = Null
    /\ \E n \in 0..MaxClips :
          \E ps \in [1..n -> WavParams], ts \in [1..n -> ClipTexts] :
              /\ disk = { WavFile(k, ps[k], ts[k]) : k \in 1..n }
              /\ temp_files = [k \in 1..n |-> k]
    /\ audio_cache = { }
    /\ collected = { }
    /\ calls = { }
    /\ st_errors = 0
    /\ initialized = TRUE
    /\ response = Null

\* AudioProcessor.concatenate_wav_files(wav_files), cleanup included
ConcatenateWavFiles ==
    /\ impl = "concat"
    /\ pc = "idle"
    /\ response' = [audio |-> concatenate_wav_files(disk, temp_files), raised |-> FALSE]
    /\ disk' = unlink_all(disk, temp_files)
    /\ pc' = "done"
    /\ UNCHANGED << chat_history, recent, impl, text_answer, widgets, script, segments, futures, workers, lock,
                    engine, audio_cache, collected, temp_files, calls, st_errors,
                    initialized >>

NextConcat == ConcatenateWavFiles

SpecConcat == InitConcat /\ [][NextConcat]_vars

(***************************************************************************)
(* SessionState: the chat history. An entry is the question and the time   *)
(* it was added (datetime.now(), which advances); at most MaxTime entries  *)
(* are added, and get_recent_chat_history is called with every limit up to *)
(* MaxLimit.                                                               *)
(***************************************************************************)
Questions == { "q1", "q2" }
Times == 1..MaxTime
Limits == 0..MaxLimit

\* where list[i:] starts (0-based) in a list of len items: a negative i counts
\* from the end, and both ends are clamped
slice_start(len, i) ==
    IF i < 0 THEN (IF len + i < 0 THEN 0 ELSE len + i)
    ELSE (IF i > len THEN len ELSE i)

\* list[i:]
slice_from(list, i) == SubSeq(list, slice_start(Len(list), i) + 1, Len(list))

\* list(reversed(list))
reversed(list) == [k \in 1..Len(list) |-> list[Len(list) + 1 - k]]

\* "return list(reversed(st.session_state.chat_history[-limit:]))"
get_recent_chat_history(history, limit) == reversed(slice_from(history, 0 - limit))

\* SessionState.initialize(): chat_history = []
InitChat ==
    /\ impl = "chat"
    /\ script = NoScript
    /\ pc = "idle"
    /\ segments = << >>
    /\ Untouched

\* SessionState.add_to_chat_history(question, response)
AddToChatHistory ==
    /\ impl = "chat"
    /\ \E question \in Questions, now \in Times :
          /\ \A k \in 1..Len(chat_history) : chat_history[k].timestamp < now
          /\ chat_history' = Append(chat_history,
                                    [timestamp |-> now, question |-> question])
    /\ UNCHANGED recent
    /\ UNCHANGED << impl, text_answer, widgets, script, pc, segments, futures, workers,
                    lock, engine, disk, audio_cache, collected, temp_files, calls,
                    st_errors, initialized, response >>

\* SessionState.clear_chat_history()
ClearChatHistory ==
    /\ impl = "chat"
    /\ chat_history' = << >>
    /\ UNCHANGED recent
    /\ UNCHANGED << impl, text_answer, widgets, script, pc, segments, futures, workers,
                    lock, engine, disk, audio_cache, collected, temp_files, calls,
                    st_errors, initialized, response >>

\* SessionState.get_recent_chat_history(limit): the call, with the history
\* before and after it, and what it returned
GetRecentChatHistory ==
    /\ impl = "chat"
    /\ UNCHANGED chat_history
    /\ \E limit \in Limits :
          recent' = [limit |-> limit,
                     entries |-> get_recent_chat_history(chat_history, limit),
                     before |-> chat_history,
                     after |-> chat_history']
    /\ UNCHANGED << impl, text_answer, widgets, script, pc, segments, futures, workers,
                    lock, engine, disk, audio_cache, collected, temp_files, calls,
                    st_errors, initialized, response >>

NextChat ==
    \/ AddToChatHistory
    \/ ClearChatHistory
    \/ GetRecentChatHistory

SpecChat == InitChat /\ [][NextChat]_vars

(***************************************************************************)
(* PodcastCreator                                                          *)
(***************************************************************************)
\* a pool thread: its task, its position in get_audio, and whether an equal
\* (text, voice) request had already returned a clip when it took the task
IdleWorker == [task |-> 0, at |-> "idle", repeat |-> FALSE]

\* before PodcastCreator() is called: "self._engine = None",
\* "self._audio_cache = {}", a free lock
NewCreator ==
    /\ chat_history = << >>
    /\ recent = Null
    /\ impl = "creator"
    /\ segments = << >>
    /\ futures = << >>
    /\ workers = [w \in Workers |-> IdleWorker]
    /\ lock = 0
    /\ engine = Null
    /\ disk = { }
    /\ audio_cache = { }
    /\ collected = { }
    /\ temp_files = << >>
    /\ calls = { }
    /\ st_errors = 0
    /\ initialized = TRUE
    /\ response = Null

\* the pipeline on every script, with working progress widgets
InitCreator ==
    /\ NewCreator
    /\ pc = "new"
    /\ script \in PipeScripts
    /\ text_answer = "answer"
    /\ widgets = "ok"

\* PodcastCreator(): AudioProcessor.__init__ runs initialize_engine, which
\* keeps the first two of the installed voices, or raises ValueError out of
\* the constructor when the engine has none.
Construct ==
    /\ impl = "creator"
    /\ pc = "new"
    /\ \E installed \in 0..2 :
          IF installed = 0
          THEN /\ pc' = "unavailable"
               /\ UNCHANGED engine
          ELSE /\ pc' = "idle"
               /\ engine' = [installed |-> installed, voice |-> "voice0",
                             text |-> << >>, file |-> 0]
    /\ UNCHANGED << chat_history, recent, impl, text_answer, widgets, script, segments, futures, workers,
                    lock, disk, audio_cache, collected, temp_files, calls, st_errors,
                    initialized, response >>

PodcastResponse(answer, podcast_script, audio, error) ==
    [text_answer |-> answer, podcast_script |-> podcast_script,
     audio |-> audio, error |-> error, raised |-> FALSE]

\* an except clause that reports the exception in place of the answer
process_answer_except_loses_answer(answer, e) ==
    PodcastResponse(e, NoScript, Null, [message |-> e])

\* the except clause of process_answer
process_answer_except(answer, e) ==
    PodcastResponse(answer, NoScript, Null, [message |-> e])

\* process_answer after create_podcast returned: the widget calls
\* (progress 0.8, 1.0, empty) and the return, or the except clause
process_answer_return(answer, podcast_script, audio, raising) ==
    IF raising = "after"
    THEN process_answer_except(answer, "widget")
    ELSE PodcastResponse(answer, podcast_script, audio, Null)

\* where the caller stands once process_answer returned the response r
returned(r) == IF r.error = Null THEN "done" ELSE "errored"

\* process_answer, up to the call of create_podcast: the return for an
\* empty script, then the first widget calls (st.progress, st.empty)
ProcessAnswer ==
    /\ impl = "creator"
    /\ pc = "idle"
    /\ IF script = EmptyString
       THEN /\ response' = PodcastResponse(text_answer, NoScript, Null, Null)
            /\ pc' = returned(response')
       ELSE IF widgets = "before"
       THEN /\ response' = process_answer_except(text_answer, "widget")
            /\ pc' = returned(response')
       ELSE /\ pc' = "parsing"
            /\ UNCHANGED response
    /\ UNCHANGED << chat_history, recent, impl, text_answer, widgets, script, segments, futures, workers, lock, engine, disk,
                    audio_cache, collected, temp_files, calls, st_errors, initialized >>

\* create_podcast without its early return
no_segments_unchecked(segs) == FALSE

\* "if not segments: return None"
no_segments(segs) == segs = << >>

\* create_podcast: clean_script, and the return when there are no segments
CleanScript ==
    /\ impl = "creator"
    /\ pc = "parsing"
    /\ segments' = clean_script(script)
    /\ IF no_segments(segments')
       THEN /\ response' = process_answer_return(text_answer, script, Null, widgets)
            /\ pc' = returned(response')
       ELSE /\ pc' = "synthesizing"
            /\ UNCHANGED response
    /\ UNCHANGED << chat_history, recent, impl, text_answer, widgets, script, futures, workers, lock, engine, disk,
                    audio_cache, collected, temp_files, calls, st_errors, initialized >>

\* the arguments of the task of the segment at (0-based) position idx
submitted(segs, idx) ==
    [text |-> segs[idx + 1].text, is_first_speaker |-> idx % 2 = 0,
     state |-> "queued", result |-> 0]

\* one iteration of "for idx, (_, text) in enumerate(segments)"
Submit ==
    /\ impl = "creator"
    /\ pc = "synthesizing"
    /\ Len(futures) < Len(segments)
    /\ futures' = Append(futures, submitted(segments, Len(futures)))
    /\ UNCHANGED << chat_history, recent, impl, text_answer, widgets, script, pc, segments, workers, lock, engine, disk,
                    audio_cache, collected, temp_files, calls, st_errors,
                    initialized, response >>

\* process_segment: the voice of a task
voice_of(installed, is_first_speaker) ==
    IF is_first_speaker THEN voices(installed).host1 ELSE voices(installed).host2

\* the work queue of the executor is first in, first out
next_queued(futs) ==
    CHOOSE i \in 1..Len(futs) :
        futs[i].state = "queued" /\ \A j \in 1..(i - 1) : futs[j].state # "queued"

\* NamedTemporaryFile(suffix='.wav', delete=False): an empty file of a fresh name
new_temp_file(name) == [name |-> name, params |-> "empty", clip |-> Null]

\* get_audio without its first test
no_text_unchecked(text) == FALSE

\* "if not text.strip(): return None, ''"
no_text(text) == strip(text) = << >>

\* A pool thread takes the next task and runs process_segment / get_audio up
\* to the lock: empty text and a cache hit return at once.
WorkerTake(w) ==
    /\ impl = "creator"
    /\ workers[w].at = "idle"
    /\ \E i \in 1..Len(futures) : futures[i].state = "queued"
    /\ LET i == next_queued(futures)
           text == futures[i].text
           key == cache_key(text, voice_of(engine.installed, futures[i].is_first_speaker))
       IN  IF no_text(text)
           THEN /\ futures' = [futures EXCEPT ![i].state = "done", ![i].result = 0]
                /\ UNCHANGED << workers, disk >>
           ELSE IF InCache(audio_cache, key)
           THEN /\ futures' = [futures EXCEPT ![i].state = "done",
                                              ![i].result = Cached(audio_cache, key)]
                /\ UNCHANGED << workers, disk >>
           ELSE /\ futures' = [futures EXCEPT ![i].state = "running"]
                /\ workers' = [workers EXCEPT ![w] =
                      [task |-> i, at |-> "lock",
                       repeat |-> \E j \in 1..Len(futures) :
                           /\ futures[j].state = "done" /\ futures[j].result # 0
                           /\ key = cache_key(futures[j].text,
                                   voice_of(engine.installed, futures[j].is_first_speaker))]]
                /\ disk' = disk \cup { new_temp_file(i) }
    /\ UNCHANGED << chat_history, recent, impl, text_answer, widgets, script, pc, segments, lock, engine, audio_cache, collected,
                    temp_files, calls, st_errors, initialized, response >>

\* get_audio using the engine without taking the lock
may_enter_unlocked(l) == TRUE

\* "with self._lock:"
may_enter(l) == l = 0

WorkerAcquire(w) ==
    /\ impl = "creator"
    /\ workers[w].at = "lock"
    /\ may_enter(lock)
    /\ lock' = w
    /\ workers' = [workers EXCEPT ![w].at = "voice"]
    /\ UNCHANGED << chat_history, recent, impl, text_answer, widgets, script, pc, segments, futures, engine, disk, audio_cache,
                    collected, temp_files, calls, st_errors, initialized, response >>

\* self._engine.setProperty('voice', voice_id)
WorkerSetVoice(w) ==
    /\ impl = "creator"
    /\ workers[w].at = "voice"
    /\ engine' = [engine EXCEPT !.voice =
                    voice_of(engine.installed, futures[workers[w].task].is_first_speaker)]
    /\ workers' = [workers EXCEPT ![w].at = "save"]
    /\ UNCHANGED << chat_history, recent, impl, text_answer, widgets, script, pc, segments, futures, lock, disk, audio_cache,
                    collected, temp_files, calls, st_errors, initialized, response >>

\* self._engine.save_to_file(text, temp_filename)
WorkerSaveToFile(w) ==
    /\ impl = "creator"
    /\ workers[w].at = "save"
    /\ engine' = [engine EXCEPT !.text = futures[workers[w].task].text,
                                !.file = workers[w].task]
    /\ workers' = [workers EXCEPT ![w].at = "run"]
    /\ UNCHANGED << chat_history, recent, impl, text_answer, widgets, script, pc, segments, futures, lock, disk, audio_cache,
                    collected, temp_files, calls, st_errors, initialized, response >>

\* get_audio returning the file name from its except clause too
get_audio_result_keeps_name(ok, temp_filename) == temp_filename

\* what get_audio returns after the engine ran: (temp_filename, "") or, from
\* the except clause, (None, str(e))
get_audio_result(ok, temp_filename) == IF ok THEN temp_filename ELSE 0

\* a lock taken with acquire() and released after the calls, without
\* try/finally: an exception leaves it held
release_unless_raised(l, w, ok) == IF ok /\ l = w THEN 0 ELSE l

\* the end of "with self._lock:", on the normal and on the exceptional path
release(l, w, ok) == IF l = w THEN 0 ELSE l

\* self._engine.runAndWait(), the end of the with block, and the return of
\* get_audio and process_segment. The backend call renders the queued
\* utterance into the queued file, or raises.
WorkerRunAndWait(w) ==
    /\ impl = "creator"
    /\ workers[w].at = "run"
    /\ LET i == workers[w].task IN
       /\ calls' = calls \cup
             { [task |-> i, repeat |-> workers[w].repeat,
                key |-> cache_key(futures[i].text,
                           voice_of(engine.installed, futures[i].is_first_speaker))] }
       /\ \E ok \in BOOLEAN :
             /\ disk' = IF ok
                        THEN { f \in disk : f.name # engine.file } \cup
                             { [name |-> engine.file, params |-> "pcm",
                                clip |-> Rendered(engine.file, engine.text, engine.voice)] }
                        ELSE disk
             /\ futures' = [futures EXCEPT ![i].state = "done",
                                           ![i].result = get_audio_result(ok, i)]
             /\ st_errors' = IF ok THEN st_errors ELSE st_errors + 1
             /\ lock' = release(lock, w, ok)
       /\ workers' = [workers EXCEPT ![w] = IdleWorker]
    /\ UNCHANGED << chat_history, recent, impl, text_answer, widgets, script, pc, segments, engine, audio_cache, collected,
                    temp_files, initialized, response >>

\* collecting in completion order (as_completed): a finished task that was
\* not collected yet, the latest submitted first
next_future_as_completed(futs, coll) ==
    IF \E i \in 1..Len(futs) : i \notin coll /\ futs[i].state = "done"
    THEN CHOOSE i \in 1..Len(futs) :
            /\ i \notin coll /\ futs[i].state = "done"
            /\ \A j \in 1..Len(futs) : (j \notin coll /\ futs[j].state = "done") => j <= i
    ELSE CHOOSE i \in 1..Len(futs) : i \notin coll

\* "for future in futures": the future whose result() is waited for next
next_future(futs, coll) ==
    CHOOSE i \in 1..Len(futs) : i \notin coll /\ \A j \in 1..(i - 1) : j \in coll

\* a result() that returns what the future holds without waiting for it
result_ready_without_wait(future) == TRUE

\* future.result() blocks until the task has finished
result_ready(future) == future.state = "done"

\* "if temp_file: temp_files.append(temp_file)"
append_result(files, result) == IF result # 0 THEN Append(files, result) ELSE files

\* One iteration of the collection loop: future.result() returns once the
\* task is done. After the last one, "if not temp_files: return None".
Collect ==
    /\ impl = "creator"
    /\ pc = "synthesizing"
    /\ Len(futures) = Len(segments)
    /\ Cardinality(collected) < Len(futures)
    /\ LET i == next_future(futures, collected) IN
       /\ result_ready(futures[i])
       /\ collected' = collected \cup { i }
       /\ temp_files' = append_result(temp_files, futures[i].result)
    /\ IF Cardinality(collected') = Len(futures)
       THEN IF temp_files' = << >>
            THEN /\ response' = process_answer_return(text_answer, script, Null, widgets)
                 /\ pc' = returned(response')
            ELSE /\ pc' = "concatenating"
                 /\ UNCHANGED response
       ELSE UNCHANGED << pc, response >>
    /\ UNCHANGED << chat_history, recent, impl, text_answer, widgets, script, segments, futures, workers, lock, engine, disk,
                    audio_cache, calls, st_errors, initialized >>

\* wave.open raises on a name that is no file, or on a file that holds no WAV
readable(files, wav_files) ==
    \A k \in 1..Len(wav_files) :
        \E f \in files : f.name = wav_files[k] /\ f.clip # Null

\* "return self.audio_processor.concatenate_wav_files(temp_files)", the
\* except clause of create_podcast, and the return of process_answer
Concatenate ==
    /\ impl = "creator"
    /\ pc = "concatenating"
    /\ IF readable(disk, temp_files)
       THEN /\ response' = process_answer_return(text_answer, script,
                              concatenate_wav_files(disk, temp_files), widgets)
            /\ disk' = unlink_all(disk, temp_files)
            /\ UNCHANGED st_errors
       ELSE /\ response' = process_answer_return(text_answer, script, Null, widgets)
            /\ st_errors' = st_errors + 1
            /\ UNCHANGED disk
    /\ pc' = returned(response')
    /\ UNCHANGED << chat_history, recent, impl, text_answer, widgets, script, segments, futures, workers, lock, engine,
                    audio_cache, collected, temp_files, calls, initialized >>

NextCreator ==
    \/ Construct
    \/ ProcessAnswer
    \/ CleanScript
    \/ Submit
    \/ \E w \in Workers : WorkerTake(w)
    \/ \E w \in Workers : WorkerAcquire(w)
    \/ \E w \in Workers : WorkerSetVoice(w)
    \/ \E w \in Workers : WorkerSaveToFile(w)
    \/ \E w \in Workers : WorkerRunAndWait(w)
    \/ Collect
    \/ Concatenate

(***************************************************************************)
(* VoiceGenerator                                                          *)
(***************************************************************************)
\* self.voices: the two host names and their voice ids, once initialized
vg_voices == (<< "S" >> :> "sarah_voice") @@ (<< "M" >> :> "mike_voice")

\* The body of "for line in script.split('\n')": lines without ':' are
\* skipped, and so are those with no text or whose speaker is not in
\* self.voices.
RECURSIVE vg_segments(_)
vg_segments(s) ==
    IF s = << >> THEN << >>
    ELSE LET line == Head(s)
             speaker == strip(split_colon(line)[1])
             text == strip(split_colon(line)[2])
         IN  IF ~HasColon(line) THEN vg_segments(Tail(s))
             ELSE IF text = << >> \/ speaker \notin DOMAIN vg_voices
                  THEN vg_segments(Tail(s))
                  ELSE << [speaker |-> speaker, text |-> text] >> \o vg_segments(Tail(s))

\* b'\x00' * 1000
silence_bytes == 1000

\* config.SILENCE_DURATION, in milliseconds
SILENCE_DURATION == 500
Silence == [kind |-> "silence", bytes |-> silence_bytes]

\* the audio the hosted backend returns for a text: some bytes per character
Clip(k, speaker, text) ==
    [kind |-> "clip", segment |-> k, voice |-> vg_voices[speaker], text |-> text,
     bytes |-> Len(text)]

\* "audio_segments.append(audio)" and "audio_segments.append(b'\x00' * 1000)"
vg_append(audio_segments, audio) == audio_segments \o << audio, Silence >>

\* create_podcast without its try/except: the exception reaches the caller
vg_uncaught == [audio |-> Null, raised |-> TRUE]

\* the except clause of VoiceGenerator.create_podcast: st.error, return None
vg_except == [audio |-> Null, raised |-> FALSE]

InitVoiceGen ==
    /\ chat_history = << >>
    /\ recent = Null
    /\ impl = "voicegen"
    /\ script \in PipeScripts
    /\ text_answer = "answer"
    /\ widgets = "ok"
    /\ pc = "new"
    /\ segments = << >>
    /\ initialized = FALSE
    /\ futures = << >>
    /\ workers = << >>
    /\ lock = 0
    /\ engine = Null
    /\ disk = { }
    /\ audio_cache = { }
    /\ collected = { }
    /\ temp_files = << >>
    /\ calls = { }
    /\ st_errors = 0
    /\ response = Null

\* VoiceGenerator(): without an API key st.error and st.stop() end the
\* script run; when the client or the choice of the two voices raises, the
\* except clause shows st.error, sets initialized = False, and the
\* constructor returns the instance.
VGConstruct ==
    /\ impl = "voicegen"
    /\ pc = "new"
    /\ \E backend \in { "no_api_key", "raises", "ok" } :
          /\ pc' = IF backend = "no_api_key" THEN "unavailable" ELSE "idle"
          /\ initialized' = (backend = "ok")
          /\ st_errors' = IF backend = "ok" THEN st_errors ELSE st_errors + 1
    /\ UNCHANGED << chat_history, recent, impl, text_answer, widgets, script, segments, futures, workers,
                    lock, engine, disk, audio_cache, collected, temp_files, calls,
                    response >>

\* create_podcast up to the loop over the segments
VGSplit ==
    /\ impl = "voicegen"
    /\ pc = "idle"
    /\ IF ~initialized
       THEN /\ response' = vg_except
            /\ st_errors' = st_errors + 1
            /\ pc' = "done"
            /\ UNCHANGED segments
       ELSE /\ segments' = vg_segments(script)
            /\ IF segments' = << >>
               THEN /\ response' = vg_except
                    /\ st_errors' = st_errors + 1
                    /\ pc' = "done"
               ELSE /\ pc' = "synthesizing"
                    /\ UNCHANGED << response, st_errors >>
    /\ UNCHANGED << chat_history, recent, impl, text_answer, widgets, script, futures, workers, lock, engine, disk, audio_cache,
                    collected, temp_files, calls, initialized >>

\* One iteration of "for speaker, text in segments": generate_audio_segment
\* returns the audio of the backend call, or None when it raised.
VGGenerate ==
    /\ impl = "voicegen"
    /\ pc = "synthesizing"
    /\ LET k == Cardinality(collected) + 1
           seg == segments[k]
       IN  /\ calls' = calls \cup
                 { [task |-> k, repeat |-> FALSE,
                    key |-> cache_key(seg.text, vg_voices[seg.speaker])] }
           /\ collected' = collected \cup { k }
           /\ \E ok \in BOOLEAN :
                 IF ok
                 THEN /\ temp_files' = vg_append(temp_files, Clip(k, seg.speaker, seg.text))
                      /\ UNCHANGED st_errors
                 ELSE /\ st_errors' = st_errors + 1
                      /\ UNCHANGED temp_files
           /\ pc' = IF k = Len(segments) THEN "concatenating" ELSE pc
    /\ UNCHANGED << chat_history, recent, impl, text_answer, widgets, script, segments, futures, workers, lock, engine, disk,
                    audio_cache, initialized, response >>

\* "if not audio_segments: raise", "final_audio = b''.join(audio_segments)"
VGJoin ==
    /\ impl = "voicegen"
    /\ pc = "concatenating"
    /\ IF temp_files = << >>
       THEN /\ response' = vg_except
            /\ st_errors' = st_errors + 1
       ELSE /\ response' = [audio |-> temp_files, raised |-> FALSE]
            /\ UNCHANGED st_errors
    /\ pc' = "done"
    /\ UNCHANGED << chat_history, recent, impl, text_answer, widgets, script, segments, futures, workers, lock, engine, disk,
                    audio_cache, collected, temp_files, calls, initialized >>

NextVoiceGen ==
    \/ VGConstruct
    \/ VGSplit
    \/ VGGenerate
    \/ VGJoin

(***************************************************************************)
(* Both pipelines.                                                         *)
(***************************************************************************)
Init == InitCreator \/ InitVoiceGen

Next == NextCreator \/ NextVoiceGen

Spec == Init /\ [][Next]_vars

(***************************************************************************)
(* process_answer as its caller sees it: every text_answer, every script   *)
(* of up to MaxAnswerLines of the lines below (two speaker lines, a label  *)
(* with no text, a blank line), and progress widgets that work, or raise   *)
(* before or after create_podcast. The pool threads and the caller keep    *)
(* running while they have a step to take.                                 *)
(***************************************************************************)
TextAnswers == { "answer", "other" }

AnswerLines ==
    { << "S", ":", "x" >>,
      << "M", ":", "y" >>,
      << "S", ":" >>,
      << >> }

InitAnswer ==
    /\ NewCreator
    /\ pc = "start"
    /\ script = NoScript
    /\ text_answer = "answer"
    /\ widgets = "ok"

\* the application is about to build its PodcastCreator and to call
\* process_answer(text_answer, podcast_script) on it
Request ==
    /\ impl = "creator"
    /\ pc = "start"
    /\ pc' = "new"
    /\ script' \in SeqsUpTo(AnswerLines, MaxAnswerLines)
    /\ text_answer' \in TextAnswers
    /\ widgets' \in { "ok", "before", "after" }
    /\ UNCHANGED << chat_history, recent, impl, segments, futures, workers, lock, engine, disk, audio_cache,
                    collected, temp_files, calls, st_errors, initialized, response >>

NextAnswer == Request \/ NextCreator

SpecAnswer == InitAnswer /\ [][NextAnswer]_vars /\ WF_vars(NextAnswer)

\* the length in bytes of joined chunks
RECURSIVE total_bytes(_)
total_bytes(chunks) ==
    IF chunks = << >> THEN 0 ELSE Head(chunks).bytes + total_bytes(Tail(chunks))

(***************************************************************************)
(* Properties.                                                             *)
(***************************************************************************)
(***************************************************************************)
(* Notions the statements below share.                                     *)
(***************************************************************************)
CreatorDone == impl = "creator" /\ pc = "done"
VoiceGenDone == impl = "voicegen" /\ pc = "done"

\* the tasks of PodcastCreator that returned a clip
Succeeded == { i \in 1..Len(futures) : futures[i].state = "done" /\ futures[i].result # 0 }

\* every segment was submitted and none returned a clip
AllSegmentsFailed ==
    /\ Len(segments) >= 1
    /\ Len(futures) = Len(segments)
    /\ \A i \in 1..Len(futures) : futures[i].state = "done" /\ futures[i].result = 0

\* the files of the clips in the final audio of PodcastCreator, in order
FinalFiles == [a \in 1..Len(response.audio.frames) |-> response.audio.frames[a].file]

(***************************************************************************)
(* C1: in PodcastCreator.create_podcast, whatever the order in which the   *)
(* pool completes the tasks, the clips handed to concatenation and the     *)
(* clips of the final audio are in the order of their segments: segment    *)
(* i's clip precedes segment j's whenever i < j both succeeded, and each   *)
(* clip holds the text of its segment.                                     *)
(***************************************************************************)
C1_SegmentOrder ==
    /\ impl = "creator" =>
          \A a, b \in 1..Len(temp_files) : a < b => temp_files[a] < temp_files[b]
    /\ (CreatorDone /\ response.audio # Null) =>
          /\ \A a, b \in 1..Len(FinalFiles) : a < b => FinalFiles[a] < FinalFiles[b]
          /\ \A i \in Succeeded : \E a \in 1..Len(FinalFiles) : FinalFiles[a] = i
          /\ \A a \in 1..Len(FinalFiles) :
                response.audio.frames[a].text = segments[FinalFiles[a]].text

\* three clips in the final audio, and the first segment was rendered last
C1_Witness ==
    /\ CreatorDone
    /\ response.audio # Null
    /\ Len(response.audio.frames) = 3
    /\ engine.file = 1

(***************************************************************************)
(* C2: when some but not all segments of PodcastCreator fail, the final    *)
(* audio holds exactly the clips of the segments that succeeded, each      *)
(* once, and the error field of the result is unset.                       *)
(***************************************************************************)
C2_PartialFailure ==
    (CreatorDone /\ Succeeded # { } /\ Succeeded # 1..Len(segments)) =>
        /\ response.audio # Null
        /\ Len(FinalFiles) = Cardinality(Succeeded)
        /\ { FinalFiles[a] : a \in 1..Len(FinalFiles) } = Succeeded
        /\ \A a \in 1..Len(FinalFiles) :
              response.audio.frames[a].text = segments[FinalFiles[a]].text
        /\ response.error = Null

\* two segments, the backend raised on exactly one of them
C2_Witness ==
    /\ CreatorDone
    /\ Len(segments) = 2
    /\ Cardinality(calls) = 2
    /\ Cardinality(Succeeded) = 1
    /\ st_errors = 1
    /\ response.audio # Null
    /\ Len(response.audio.frames) = 1

(***************************************************************************)
(* C3: when every segment of a non-empty segment sequence fails, the       *)
(* pipeline (either one) returns no audio and raises nothing.              *)
(***************************************************************************)
C3_AllFailed ==
    /\ (CreatorDone /\ AllSegmentsFailed) =>
          response.audio = Null /\ ~response.raised
    /\ (VoiceGenDone /\ segments # << >> /\ temp_files = << >>) =>
          response.audio = Null /\ ~response.raised

\* two segments of PodcastCreator, the backend raised on both
C3_Witness ==
    /\ CreatorDone
    /\ Len(segments) = 2
    /\ AllSegmentsFailed
    /\ Cardinality(calls) = 2
    /\ st_errors = 2
    /\ response.audio = Null

(***************************************************************************)
(* C4: when all segments fail synthesis, the PodcastResponse returned by   *)
(* process_answer has a populated error field. The code returns            *)
(* error = None: create_podcast returns None and nothing sets the field.   *)
(***************************************************************************)
C4_ErrorPopulated ==
    (CreatorDone /\ AllSegmentsFailed) => response.error # Null

C6_OneSegmentPerDelimiterLine ==
    (impl = "parse" /\ pc = "parsed") =>
        /\ Len(segments) = Cardinality(DelimiterLines(script))
        /\ \A k \in 1..Len(segments) :
              segments[k].speaker = Label(script[Kth(DelimiterLines(script), k)])

(***************************************************************************)
(* C6, amended: the parser produces exactly one segment per delimiter line *)
(* whose trimmed speaker label is non-empty, in the original line order;   *)
(* continuation lines never add a segment.                                 *)
(***************************************************************************)
C6_OneSegmentPerLabelledLine ==
    (impl = "parse" /\ pc = "parsed") =>
        /\ Len(segments) = Cardinality(LabelledLines(script))
        /\ \A k \in 1..Len(segments) :
              segments[k].speaker = Label(script[Kth(LabelledLines(script), k)])

\* two speaker lines and two continuation lines have given two segments
C6_Witness ==
    /\ impl = "parse" /\ pc = "parsed"
    /\ Len(script) = 4
    /\ Cardinality(DelimiterLines(script)) = 2
    /\ \A i \in 1..4 : ~Blank(script[i])
    /\ LabelledLines(script) = DelimiterLines(script)
    /\ Len(segments) = 2

(***************************************************************************)
(* C7: each segment's speaker is the trimmed text before the first ':' of  *)
(* its delimiter line, and its text is the (trimmed) remainder of that     *)
(* line followed by every later non-delimiter, non-blank line up to the    *)
(* next delimiter line, joined by single spaces; lines before the first    *)
(* delimiter line and blank lines are in no segment.                       *)
(***************************************************************************)
C7_SegmentContents ==
    (impl = "parse" /\ pc = "parsed") =>
        /\ Len(segments) <= Cardinality(LabelledLines(script))
        /\ \A k \in 1..Len(segments) :
              segments[k] = ExpectedSegment(script, Kth(LabelledLines(script), k))

\* a script that opens with a line before any delimiter and holds a blank
\* line and a continuation line, parsed to one segment of two joined lines
C7_Witness ==
    /\ impl = "parse" /\ pc = "parsed"
    /\ Len(script) = 4
    /\ ~HasColon(script[1]) /\ ~Blank(script[1])
    /\ HasColon(script[2])
    /\ Blank(script[3])
    /\ ~HasColon(script[4]) /\ ~Blank(script[4])
    /\ Len(segments) = 1
    /\ segments[1].text = Remainder(script[2]) \o << " " >> \o strip(script[4])
    /\ Remainder(script[2]) # << >>


(***************************************************************************)
(* C8: concatenating K >= 1 clips yields an output as long as the K clips  *)
(* together plus K-1 silence buffers, the silence standing between         *)
(* consecutive clips only. concatenate_wav_files writes no silence at all, *)
(* and VoiceGenerator.create_podcast appends one silence buffer after      *)
(* every clip, the last included.                                          *)
(***************************************************************************)
RECURSIVE SumOver(_, _)
SumOver(S, f) ==
    IF S = { } THEN 0
    ELSE LET x == CHOOSE y \in S : TRUE IN f[x] + SumOver(S \ { x }, f)

ClipChunks(chunks) == { a \in 1..Len(chunks) : chunks[a].kind = "clip" }

C8_SilenceBetweenClips ==
    /\ (CreatorDone /\ response.audio # Null) =>
          total_frames(response.audio.frames) =
              SumOver(Succeeded, [i \in Succeeded |-> Len(futures[i].text)])
              + (Cardinality(Succeeded) - 1) * SILENCE_DURATION
    /\ (VoiceGenDone /\ response.audio # Null) =>
          total_bytes(response.audio) =
              SumOver(ClipChunks(response.audio),
                      [a \in ClipChunks(response.audio) |-> response.audio[a].bytes])
              + (Cardinality(ClipChunks(response.audio)) - 1) * silence_bytes

(***************************************************************************)
(* C9: two synthesis requests of one pipeline instance for the same        *)
(* (text, voice) pair make at most one backend call and return the same    *)
(* output: no request that starts after an equal one returned its clip     *)
(* calls the backend, and equal requests return equal results. Nothing     *)
(* ever stores into _audio_cache, so each request calls the backend and    *)
(* returns a temporary file of its own.                                    *)
(***************************************************************************)
C9_CachedSynthesis ==
    impl = "creator" =>
        /\ \A c \in calls : ~c.repeat
        /\ \A c \in calls : \A j \in Succeeded :
              (c.repeat /\ c.task \in Succeeded /\ j # c.task
                 /\ c.key = cache_key(futures[j].text,
                                voice_of(engine.installed, futures[j].is_first_speaker)))
                  => futures[c.task].result = futures[j].result

(***************************************************************************)
(* C10: every segment resolves to some voice whatever its speaker label,   *)
(* so no segment is dropped for its label: in PodcastCreator every parsed  *)
(* segment is submitted with the voice of its position, and in             *)
(* VoiceGenerator every line with a label and a text becomes a segment.    *)
(* VoiceGenerator.create_podcast skips the lines whose speaker is not one  *)
(* of its two names.                                                       *)
(***************************************************************************)
C10_EverySegmentHasAVoice ==
    /\ (impl = "creator" /\ Len(futures) = Len(segments)) =>
          \A i \in 1..Len(segments) :
              /\ futures[i].text = segments[i].text
              /\ voice_of(engine.installed, futures[i].is_first_speaker)
                    = (IF (i - 1) % 2 = 0 THEN "voice0"
                       ELSE voices(engine.installed).host2)
    /\ (impl = "voicegen" /\ initialized /\ pc # "idle") =>
          \A i \in DelimiterLines(script) :
              Remainder(script[i]) # << >> =>
                  \E k \in 1..Len(segments) :
                      segments[k] = [speaker |-> Label(script[i]),
                                     text |-> Remainder(script[i])]

(***************************************************************************)
(* C11: the voice of a segment is a function of its recognized speaker     *)
(* label alone (a fixed table of two entries): within one script two       *)
(* segments with the same recognized label are synthesized with the same   *)
(* voice, wherever they stand. PodcastCreator picks the voice by the       *)
(* parity of the segment's position and never reads the label.             *)
(***************************************************************************)
C11_SameLabelSameVoice ==
    impl \in { "creator", "voicegen" } =>
        \A c, d \in calls :
            (/\ segments[c.task].speaker = segments[d.task].speaker
             /\ segments[c.task].speaker \in DOMAIN vg_voices)
                => c.key[2] = d.key[2]

(***************************************************************************)
(* C12: process_answer never raises and always returns a response the      *)
(* caller can render: whether audio was produced, nothing was to be        *)
(* synthesized, every segment failed, or an exception was caught inside,   *)
(* the returned PodcastResponse carries the text_answer it was given.      *)
(***************************************************************************)
C12_TextAnswerReturned ==
    /\ response # Null <=> pc \in { "done", "errored" }
    /\ response # Null =>
          /\ response.text_answer = text_answer
          /\ ~response.raised
          /\ response.error # Null =>
                response.audio = Null /\ response.podcast_script = NoScript

\* the four outcomes: audio; no segment; every segment failed; an exception
\* caught after two clips had been concatenated
C12_Witness ==
    /\ pc = "errored"
    /\ text_answer = "other"
    /\ widgets = "after"
    /\ Len(temp_files) = 2
    /\ response.error # Null
    /\ response.text_answer = "other"

(***************************************************************************)
(* C13: a synthesis backend that cannot be initialized (no voices, no      *)
(* credentials) is fatal when the pipeline is constructed: the constructor *)
(* leaves no instance behind, so create_podcast never starts on one, never *)
(* is the place where the failure shows, and no synthesis call is made.    *)
(* VoiceGenerator.__init__ catches the failure, sets initialized = False   *)
(* and returns the instance; create_podcast finds the flag later.          *)
(***************************************************************************)
C13_UnavailableIsFatal ==
    /\ (impl = "creator" /\ pc \notin { "new", "unavailable" }) =>
          engine # Null /\ engine.installed >= 1
    /\ (impl = "voicegen" /\ pc \notin { "new", "unavailable" }) => initialized
    /\ pc = "unavailable" => calls = { } /\ response = Null
    /\ (impl = "voicegen" /\ ~initialized) => calls = { }

(***************************************************************************)
(* C14: the join barrier of PodcastCreator.create_podcast. Concatenation   *)
(* starts, and the result is returned, only after every task that was      *)
(* submitted has finished with a clip or with a recorded failure: in no    *)
(* reachable state is the pipeline concatenating or returned while a task  *)
(* of the run is queued or running.                                        *)
(***************************************************************************)
C14_JoinBarrier ==
    (/\ impl = "creator"
     /\ pc \in { "concatenating", "done", "errored" }
     /\ segments # << >>) =>
        /\ Len(futures) = Len(segments)
        /\ \A i \in 1..Len(futures) : futures[i].state = "done"
        /\ collected = 1..Len(futures)
        /\ \A w \in Workers : workers[w] = IdleWorker
        /\ lock = 0

\* concatenation starts on three tasks, the first of which was the last to
\* finish and the second of which failed
C14_Witness ==
    /\ impl = "creator"
    /\ pc = "concatenating"
    /\ Len(futures) = 3
    /\ Cardinality(calls) = 3
    /\ futures[2].result = 0
    /\ temp_files = << 1, 3 >>
    /\ engine.file = 1

(***************************************************************************)
(* C15: temporary files are removed on every exit path: once               *)
(* create_podcast has returned, no temporary file created during the run   *)
(* exists any more, the file of a failed segment included. get_audio       *)
(* creates the file before the engine runs, and its except clause returns  *)
(* (None, str(e)) without removing it; only the files that reach           *)
(* concatenate_wav_files are unlinked.                                     *)
(***************************************************************************)
C15_TempFilesRemoved ==
    (impl = "creator" /\ pc \in { "done", "errored" }) => disk = { }

(***************************************************************************)
(* C16: create_podcast submits exactly one synthesis task per parsed       *)
(* segment, in segment order, to a pool of max_workers = 2 threads, and at *)
(* every moment at most 2 of the tasks are executing, however many         *)
(* segments there are.                                                     *)
(***************************************************************************)
Executing == { i \in 1..Len(futures) : futures[i].state = "running" }

C16_PoolOfTwo ==
    impl = "creator" =>
        /\ Len(futures) <= Len(segments)
        /\ \A i \in 1..Len(futures) :
              /\ futures[i].text = segments[i].text
              /\ futures[i].is_first_speaker = ((i - 1) % 2 = 0)
        /\ (pc \in { "concatenating", "done", "errored" } /\ segments # << >>) =>
              Len(futures) = Len(segments)
        /\ Cardinality(Executing) <= max_workers
        /\ \A i \in Executing : \E w \in DOMAIN workers : workers[w].task = i

\* three segments: two tasks execute, the third waits in the queue
C16_Witness ==
    /\ impl = "creator"
    /\ Len(segments) = 3
    /\ Len(futures) = 3
    /\ Executing = { 1, 2 }
    /\ futures[3].state = "queued"
    /\ futures[3].text # << >>

(***************************************************************************)
(* C17: a run of the pipeline is a state machine                           *)
(* Idle -> Parsing -> Synthesizing -> Concatenating -> Done, with Errored  *)
(* the only other terminal state: the states are visited in that order     *)
(* only, none is visited again, nothing follows Done or Errored, and, the  *)
(* backend calls returning, every run that process_answer starts reaches   *)
(* Done or Errored.                                                        *)
(***************************************************************************)
RunStates == { "idle", "parsing", "synthesizing", "concatenating", "done", "errored" }

Rank(p) ==
    CASE p = "idle" -> 1
      [] p = "parsing" -> 2
      [] p = "synthesizing" -> 3
      [] p = "concatenating" -> 4
      [] p \in { "done", "errored" } -> 5
      [] OTHER -> 0

\* what a step of a run may do to the state of the run
InOrder ==
    pc \in RunStates =>
        /\ pc' \in RunStates
        /\ pc \notin { "done", "errored" }
        /\ pc' # pc => Rank(pc) < Rank(pc')

C17_RunStateMachine ==
    /\ [][InOrder]_vars
    /\ (pc = "idle") ~> (pc \in { "done", "errored" })

\* a run through all five states: two segments synthesized, one of them
\* failed, the other concatenated and returned
C17_Witness ==
    /\ impl = "creator"
    /\ pc = "done"
    /\ widgets = "ok"
    /\ Len(futures) = 2
    /\ \A i \in 1..2 : i \in collected
    /\ st_errors = 1
    /\ lock = 0
    /\ response.audio # Null

(***************************************************************************)
(* C18: when the clips given to concatenation do not all have the same     *)
(* format parameters, concatenation fails with a format-mismatch error:    *)
(* no audio is returned that mixes formats, so every frame of a returned   *)
(* audio is in the format of the audio's header. concatenate_wav_files     *)
(* copies the parameters of the first file and writes the frames of every  *)
(* file without comparing parameters.                                      *)
(***************************************************************************)
C18_NoMixedFormats ==
    (impl = "concat" /\ pc = "done" /\ response.audio # Null) =>
        \A a \in 1..Len(response.audio.frames) :
            response.audio.frames[a].params = response.audio.params

(***************************************************************************)
(* C19: a segment whose text is empty after trimming (the line "Sarah:")   *)
(* causes no backend call, gets no temporary file and contributes no clip, *)
(* and it is skipped without aborting or failing any other segment: every  *)
(* segment with a text still gets its backend call, and the clips of those *)
(* that succeed are all in the output.                                     *)
(***************************************************************************)
EmptyText(seg) == strip(seg.text) = << >>

C19_EmptyTextSkipped ==
    /\ impl = "creator" =>
          /\ \A c \in calls : ~EmptyText(segments[c.task])
          /\ \A f \in disk : ~EmptyText(segments[f.name])
          /\ \A k \in 1..Len(temp_files) : ~EmptyText(segments[temp_files[k]])
          /\ \A w \in Workers :
                workers[w].task # 0 => ~EmptyText(segments[workers[w].task])
          /\ \A i \in 1..Len(futures) :
                (futures[i].state = "done" /\ EmptyText(segments[i])) =>
                    futures[i].result = 0
          /\ (CreatorDone /\ segments # << >>) =>
                /\ \A j \in 1..Len(segments) :
                      ~EmptyText(segments[j]) => \E c \in calls : c.task = j
                /\ Succeeded # { } =>
                      /\ response.audio # Null
                      /\ \A j \in Succeeded : \E a \in 1..Len(FinalFiles) : FinalFiles[a] = j
    /\ impl = "voicegen" =>
          /\ \A k \in 1..Len(segments) : ~EmptyText(segments[k])
          /\ (initialized /\ pc \notin { "new", "idle" }) =>
                \A i \in DelimiterLines(script) :
                    (Remainder(script[i]) # << >> /\ Label(script[i]) \in DOMAIN vg_voices)
                        => \E k \in 1..Len(segments) :
                              segments[k] = [speaker |-> Label(script[i]),
                                             text |-> Remainder(script[i])]

\* three segments, the second with an empty text: two backend calls, two
\* clips in the output, no file left
C19_Witness ==
    /\ CreatorDone
    /\ Len(segments) = 3
    /\ EmptyText(segments[2])
    /\ { c.task : c \in calls } = { 1, 3 }
    /\ response.audio # Null
    /\ FinalFiles = << 1, 3 >>
    /\ disk = { }

(***************************************************************************)
(* C20: the shared engine is used by at most one pool thread at a time.    *)
(* Setting the voice, queueing the text and running the engine are one     *)
(* step under the lock, so under every interleaving the clip of a segment  *)
(* is rendered with the voice and the text of that segment; and the lock   *)
(* is released on every path, a backend error included, so a failing       *)
(* segment cannot block the tasks that remain.                             *)
(***************************************************************************)
InEngine == { w \in Workers : workers[w].at \in { "voice", "save", "run" } }

AssignedVoice(i) == voice_of(engine.installed, futures[i].is_first_speaker)

C20_EngineUnderLock ==
    (impl = "creator" /\ pc \notin { "new", "unavailable" }) =>
        /\ Cardinality(InEngine) <= 1
        /\ \A w \in InEngine : lock = w
        /\ lock # 0 => lock \in InEngine
        /\ \A f \in disk :
              f.clip # Null =>
                  /\ f.clip.file = f.name
                  /\ f.clip.voice = AssignedVoice(f.name)
                  /\ f.clip.text = futures[f.name].text
        /\ (pc = "done" /\ response.audio # Null) =>
              \A a \in 1..Len(response.audio.frames) :
                  LET clip == response.audio.frames[a] IN
                  /\ clip.voice = AssignedVoice(clip.file)
                  /\ clip.text = futures[clip.file].text

\* two voices; the first task failed in the engine, and now the second
\* thread runs the engine for task 3 while the first waits for the lock
\* with task 2, whose voice is the other one
C20_Witness ==
    /\ impl = "creator"
    /\ pc = "synthesizing"
    /\ engine.installed = 2
    /\ Len(futures) = 3
    /\ futures[1].state = "done" /\ futures[1].result = 0
    /\ st_errors = 1
    /\ workers[1].task = 2 /\ workers[1].at = "lock"
    /\ workers[2].task = 3 /\ workers[2].at = "run"
    /\ lock = 2
    /\ AssignedVoice(2) # AssignedVoice(3)

(***************************************************************************)
(* C21: after any sequence of add_to_chat_history and clear_chat_history,  *)
(* get_recent_chat_history(limit) returns, for every limit >= 0, at most   *)
(* limit entries: the min(limit, length) entries added last since the last *)
(* clear, newest first; and it leaves the stored history unchanged. With   *)
(* limit = 0 the slice chat_history[-0:] is the whole list, so the code    *)
(* returns every entry.                                                    *)
(***************************************************************************)
MostRecent(history, limit) ==
    LET n == IF limit < Len(history) THEN limit ELSE Len(history)
    IN  [k \in 1..n |-> history[Len(history) + 1 - k]]

C21_RecentHistory ==
    (impl = "chat" /\ recent # Null) =>
        /\ Len(recent.entries) <= recent.limit
        /\ recent.entries = MostRecent(recent.before, recent.limit)
        /\ recent.after = recent.before

====
